---- MODULE Spec2Model ----
(***************************************************************************)
(* The retry-and-normalize dispatch layer of avatar/tools/react/api.py:    *)
(* get_llm_output_tools and the four backend callers get_gpt_output,       *)
(* complete_text_claude, complete_text_gemini and complete_text_hf.        *)
(*                                                                         *)
(* Strings are sequences.  A model identifier is a sequence of characters, *)
(* so that `'gpt-4' in model` and `model.split("/", 1)` are computed on    *)
(* the characters.  A prompt is a sequence of chunks (a chunk is a piece   *)
(* of text that is "json" in some case, or that holds no letter of it).    *)
(* A backend response is a sequence over the symbols { } 1 p x, where p    *)
(* stands for one object member ("a": 1) and x for any character that is   *)
(* no JSON syntax.                                                         *)
(***************************************************************************)
EXTENDS Integers, Sequences, FiniteSets, TLC

(***************************************************************************)
(* Model identifiers and the patterns the dispatcher looks for.            *)
(***************************************************************************)
\* "gpt-4-1106-preview"
Id_gpt_4_1106_preview == <<"g", "p", "t", "-", "4", "-", "1", "1", "0", "6", "-", "p", "r", "e",
    "v", "i", "e", "w">>
\* "gpt-4-0125-preview"
Id_gpt_4_0125_preview == <<"g", "p", "t", "-", "4", "-", "0", "1", "2", "5", "-", "p", "r", "e",
    "v", "i", "e", "w">>
\* "gpt-4-turbo-preview"
Id_gpt_4_turbo_preview == <<"g", "p", "t", "-", "4", "-", "t", "u", "r", "b", "o", "-", "p",
    "r", "e", "v", "i", "e", "w">>
\* "gpt-4-turbo"
Id_gpt_4_turbo == <<"g", "p", "t", "-", "4", "-", "t", "u", "r", "b", "o">>
\* "gpt-4-turbo-2024-04-09gpt-4-turbo"
Id_gpt_4_turbo_joined == <<"g", "p", "t", "-", "4", "-", "t", "u", "r", "b", "o", "-", "2", "0",
    "2", "4", "-", "0", "4", "-", "0", "9", "g", "p", "t", "-", "4", "-", "t", "u", "r", "b",
    "o">>
\* "claude-2.1"
Id_claude_2_1 == <<"c", "l", "a", "u", "d", "e", "-", "2", ".", "1">>
\* "claude-3-opus-20240229"
Id_claude_3_opus == <<"c", "l", "a", "u", "d", "e", "-", "3", "-", "o", "p", "u", "s", "-", "2",
    "0", "2", "4", "0", "2", "2", "9">>
\* "claude-3-sonnet-20240229"
Id_claude_3_sonnet == <<"c", "l", "a", "u", "d", "e", "-", "3", "-", "s", "o", "n", "n", "e",
    "t", "-", "2", "0", "2", "4", "0", "2", "2", "9">>
\* "claude-3-haiku-20240307"
Id_claude_3_haiku == <<"c", "l", "a", "u", "d", "e", "-", "3", "-", "h", "a", "i", "k", "u",
    "-", "2", "0", "2", "4", "0", "3", "0", "7">>
\* "huggingface/codellama/CodeLlama-7b-hf"
Id_hf_codellama == <<"h", "u", "g", "g", "i", "n", "g", "f", "a", "c", "e", "/", "c", "o", "d",
    "e", "l", "l", "a", "m", "a", "/", "C", "o", "d", "e", "L", "l", "a", "m", "a", "-", "7",
    "b", "-", "h", "f">>
\* "gemma-3-27b-it"
Id_gemma_3_27b_it == <<"g", "e", "m", "m", "a", "-", "3", "-", "2", "7", "b", "-", "i", "t">>
\* "gemma-2-9b-it"
Id_gemma_2_9b_it == <<"g", "e", "m", "m", "a", "-", "2", "-", "9", "b", "-", "i", "t">>
\* "gemini-1.5-flash"
Id_gemini_1_5_flash == <<"g", "e", "m", "i", "n", "i", "-", "1", ".", "5", "-", "f", "l", "a",
    "s", "h">>
\* "gemini-1.5-pro"
Id_gemini_1_5_pro == <<"g", "e", "m", "i", "n", "i", "-", "1", ".", "5", "-", "p", "r", "o">>
\* "gpt-4-turbo-2024-04-09"
Id_gpt_4_turbo_2024 == <<"g", "p", "t", "-", "4", "-", "t", "u", "r", "b", "o", "-", "2", "0",
    "2", "4", "-", "0", "4", "-", "0", "9">>
\* "totally-unknown-model"
Id_unknown == <<"t", "o", "t", "a", "l", "l", "y", "-", "u", "n", "k", "n", "o", "w", "n", "-",
    "m", "o", "d", "e", "l">>
\* "gpt-3.5-turbo"
Id_gpt_35 == <<"g", "p", "t", "-", "3", ".", "5", "-", "t", "u", "r", "b", "o">>
\* "claude-gpt-4"
Id_claude_gpt_4 == <<"c", "l", "a", "u", "d", "e", "-", "g", "p", "t", "-", "4">>
\* "gemini-claude"
Id_gemini_claude == <<"g", "e", "m", "i", "n", "i", "-", "c", "l", "a", "u", "d", "e">>
\* "huggingface/gemma-2b"
Id_hf_gemma == <<"h", "u", "g", "g", "i", "n", "g", "f", "a", "c", "e", "/", "g", "e", "m", "m",
    "a", "-", "2", "b">>
\* "huggingface/claude"
Id_hf_claude == <<"h", "u", "g", "g", "i", "n", "g", "f", "a", "c", "e", "/", "c", "l", "a",
    "u", "d", "e">>
\* "huggingface"
Id_hf_bare == <<"h", "u", "g", "g", "i", "n", "g", "f", "a", "c", "e">>
\* "huggingface-mirror/codellama/CodeLlama-7b-hf"
Id_mirror_hf == <<"h", "u", "g", "g", "i", "n", "g", "f", "a", "c", "e", "-", "m", "i", "r",
    "r", "o", "r", "/", "c", "o", "d", "e", "l", "l", "a", "m", "a", "/", "C", "o", "d", "e",
    "L", "l", "a", "m", "a", "-", "7", "b", "-", "h", "f">>
\* "local/codellama/CodeLlama-7b-hf"
Id_local_codellama == <<"l", "o", "c", "a", "l", "/", "c", "o", "d", "e", "l", "l", "a", "m",
    "a", "/", "C", "o", "d", "e", "L", "l", "a", "m", "a", "-", "7", "b", "-", "h", "f">>
\* "gpt-4"
Pat_gpt_4 == <<"g", "p", "t", "-", "4">>
\* "claude"
Pat_claude == <<"c", "l", "a", "u", "d", "e">>
\* "gemma"
Pat_gemma == <<"g", "e", "m", "m", "a">>
\* "gemini"
Pat_gemini == <<"g", "e", "m", "i", "n", "i">>
\* "huggingface"
Pat_huggingface == <<"h", "u", "g", "g", "i", "n", "g", "f", "a", "c", "e">>
\* "huggingface/"
HfPrefix == <<"h", "u", "g", "g", "i", "n", "g", "f", "a", "c", "e", "/">>

\* api.py:19-33.  The missing comma after "gpt-4-turbo-2024-04-09" makes
\* Python join it with the next literal.
registered_text_completion_llms ==
    { Id_gpt_4_1106_preview, Id_gpt_4_0125_preview, Id_gpt_4_turbo_preview,
      Id_gpt_4_turbo, Id_gpt_4_turbo_joined,
      Id_claude_2_1, Id_claude_3_opus, Id_claude_3_sonnet, Id_claude_3_haiku,
      Id_hf_codellama, Id_gemma_3_27b_it, Id_gemma_2_9b_it,
      Id_gemini_1_5_flash, Id_gemini_1_5_pro }

\* Identifiers a caller may pass that the registry does not hold.
UnregisteredModels ==
    { Id_gpt_4_turbo_2024, Id_unknown, Id_gpt_35, Id_claude_gpt_4, Id_gemini_claude,
      Id_hf_gemma, Id_hf_claude, Id_hf_bare, Id_mirror_hf, Id_local_codellama }

AllModels == registered_text_completion_llms \cup UnregisteredModels

MAX_OPENAI_RETRY == 5
OPENAI_SLEEP_TIME == 60
MAX_CLAUDE_RETRY == 100
CLAUDE_SLEEP_TIME == 5
MAX_GEMINI_RETRY == 5
GEMINI_SLEEP_TIME == 30
\* max_retry=1, sleep_time=0: the defaults of complete_text_hf (api.py:251-252)
HF_DEFAULT_RETRY == 1
HF_DEFAULT_SLEEP == 0

(***************************************************************************)
(* Python's string operations, on sequences.  Indices are Python's         *)
(* (0-based); -1 is "not found".                                           *)
(***************************************************************************)
Min(a, b) == IF a <= b THEN a ELSE b
Max(a, b) == IF a >= b THEN a ELSE b

\* pat in s
Contains(pat, s) ==
    \E i \in 1..(Len(s) - Len(pat) + 1) : SubSeq(s, i, i + Len(pat) - 1) = pat

\* s.find(c) for a one-symbol c
Find(s, c) ==
    IF \E i \in 1..Len(s) : s[i] = c
    THEN (CHOOSE i \in 1..Len(s) : s[i] = c /\ \A j \in 1..(i - 1) : s[j] # c) - 1
    ELSE -1

\* s.rfind(c) for a one-symbol c
RFind(s, c) ==
    IF \E i \in 1..Len(s) : s[i] = c
    THEN (CHOOSE i \in 1..Len(s) : s[i] = c /\ \A j \in (i + 1)..Len(s) : s[j] # c) - 1
    ELSE -1

\* s[a:b]: a negative index counts from the end, and both are clamped to 0..len(s)
PySlice(s, a, b) ==
    LET lo == IF a < 0 THEN Max(Len(s) + a, 0) ELSE Min(a, Len(s))
        hi == IF b < 0 THEN Max(Len(s) + b, 0) ELSE Min(b, Len(s))
    IN  SubSeq(s, lo + 1, hi)

\* len(s.split("/", 1)) > 1
HasSlash(s) == Find(s, "/") >= 0

\* s.split("/", 1)[1], where it exists
AfterSlash(s) == SubSeq(s, Find(s, "/") + 2, Len(s))

\* s.lower(), chunk by chunk
LowerChunk(w) == IF w \in {"JSON", "Json"} THEN "json" ELSE w
Lower(s) == [i \in 1..Len(s) |-> LowerChunk(s[i])]

(***************************************************************************)
(* json.loads on the response symbols.  Over { } 1 p x the JSON documents  *)
(* are the numbers 1, 11, ..., the empty object {} and the object {p}.     *)
(***************************************************************************)
IsNumber(s) == Len(s) > 0 /\ \A i \in 1..Len(s) : s[i] = "1"
IsObject(s) == s = <<"{", "}">> \/ s = <<"{", "p", "}">>
IsJson(s) == IsNumber(s) \/ IsObject(s)

\* Values a call can hand back: the text, the backend's own response object,
\* or what json.loads built (a dict with `num` members, or the int `num`).
NoValue == [form |-> "none", body |-> <<>>, num |-> 0]
TextValue(s) == [form |-> "text", body |-> s, num |-> 0]
RawValue(s) == [form |-> "raw", body |-> s, num |-> 0]
RECURSIVE Decimal(_)
Decimal(s) == IF s = <<>> THEN 0 ELSE 10 * Decimal(SubSeq(s, 1, Len(s) - 1)) + 1
json_loads(s) ==
    IF IsNumber(s) THEN [form |-> "int", body |-> <<>>, num |-> Decimal(s)]
    ELSE [form |-> "dict", body |-> <<>>, num |-> Len(s) - 2]

\* result[result.find("{"):result.rfind("}")+1]  (api.py:75)
ExtractBraces(s) == PySlice(s, Find(s, "{"), RFind(s, "}") + 1)

(***************************************************************************)
(* Exceptions, and what a local name that should hold one can hold.        *)
(***************************************************************************)
Exc(t, m) == [type |-> t, msg |-> m]
NoExc == Exc("", "")
\* the name is not bound: never assigned, or deleted at the end of an
\* `except ... as e` block
Unbound == Exc("<unbound>", "")
\* the name holds None
PyNone == Exc("<None>", "")

\* what a backend call can raise
BackendErrors == { Exc("RateLimitError", "429"), Exc("APIConnectionError", "connection") }
JSONDecodeError == Exc("JSONDecodeError", "Expecting value")
\* `raise name` (api.py:81, 138, 242, 289): an unbound local cannot be read, and
\* None is no exception
RaiseName(name, held) ==
    IF held = Unbound THEN Exc("UnboundLocalError", name)
    ELSE IF held = PyNone THEN Exc("TypeError", "exceptions must derive from BaseException")
    ELSE held

(***************************************************************************)
(* Requests.  A message is a string or a list of turns; history is None or *)
(* a list of turns.                                                        *)
(***************************************************************************)
Roles == {"user", "assistant"}
\* a history holds up to MaxHistoryTurns turns, a list message up to MaxMessageTurns
MaxHistoryTurns == 2
MaxMessageTurns == 2

RECURSIVE SeqsUpTo(_, _)
SeqsUpTo(S, n) ==
    IF n = 0 THEN {<<>>}
    ELSE LET shorter == SeqsUpTo(S, n - 1)
         IN  shorter \cup {Append(s, x) : s \in shorter, x \in S}

\* prompts: "C", "C JSON" (names the format, in upper case) and the empty string
MessageTexts == { <<"C">>, <<"C", "JSON">>, <<>> }
\* what a turn of a conversation says
Contents == { <<"A">>, <<"B">> }

\* {"role": r, "content": c}
ChatTurn(r, c) == [role |-> r, key |-> "content", content |-> c, parts |-> <<>>]
\* {"role": r, "parts": [c]}
GeminiTurn(r, c) == [role |-> r, key |-> "parts", content |-> <<>>, parts |-> <<c>>]

Turns == {ChatTurn(r, c) : r \in Roles, c \in Contents}
Conversations(n) == SeqsUpTo(Turns, n)

StrMessage(s) == [isstr |-> TRUE, text |-> s, turns |-> <<>>]
ListMessage(ts) == [isstr |-> FALSE, text |-> <<>>, turns |-> ts]
NoHistory == [present |-> FALSE, turns |-> <<>>]
History(ts) == [present |-> TRUE, turns |-> ts]

Messages == {StrMessage(s) : s \in MessageTexts} \cup {ListMessage(ts) : ts \in Conversations(MaxMessageTurns)}
Histories == {NoHistory} \cup {History(ts) : ts \in Conversations(MaxHistoryTurns)}

\* The conversation of the spec's example: history [user:A, assistant:B], message ...
HistoryAB == History(<<ChatTurn("user", <<"A">>), ChatTurn("assistant", <<"B">>)>>)

GPT_JSON_PREFIX == <<"You are a helpful assistant designed to output JSON. ">>
CLAUDE_JSON_PREFIX == <<"You are a helpful assistant designed to output in JSON format.">>
GEMINI_JSON_PREFIX == <<"You are a helpful assistant designed to output in JSON format. ">>
HF_JSON_PREFIX == <<"You are a helpful assistant designed to output in JSON format.">>

\* the normalisation with the history put after the message
GptMessagesHistoryLast(message, history, json_object) ==
    LET text == IF json_object /\ message.isstr /\ ~Contains(<<"json">>, Lower(message.text))
                THEN GPT_JSON_PREFIX \o message.text
                ELSE message.text
        messages == IF message.isstr THEN <<ChatTurn("user", text)>> ELSE message.turns
    IN  IF history.present /\ history.turns # <<>>
        THEN messages \o history.turns
        ELSE messages

\* the normalisation with 'json' looked for in the message as written, not lowered
GptMessagesNoLower(message, history, json_object) ==
    LET text == IF json_object /\ message.isstr /\ ~Contains(<<"json">>, message.text)
                THEN GPT_JSON_PREFIX \o message.text
                ELSE message.text
        messages == IF message.isstr THEN <<ChatTurn("user", text)>> ELSE message.turns
    IN  IF history.present /\ history.turns # <<>>
        THEN history.turns \o messages
        ELSE messages

\* api.py:45-54
GptMessages(message, history, json_object) ==
    LET text == IF json_object /\ message.isstr /\ ~Contains(<<"json">>, Lower(message.text))
                THEN GPT_JSON_PREFIX \o message.text
                ELSE message.text
        messages == IF message.isstr THEN <<ChatTurn("user", text)>> ELSE message.turns
    IN  IF history.present /\ history.turns # <<>>
        THEN history.turns \o messages
        ELSE messages

\* api.py:102-110
ClaudeMessages(message, history, json_object) ==
    LET text == IF json_object THEN CLAUDE_JSON_PREFIX \o message.text ELSE message.text
        messages == IF message.isstr THEN <<ChatTurn("user", text)>> ELSE message.turns
    IN  IF history.present THEN history.turns \o messages ELSE messages

\* api.py:173-177 and 182-186: a turn that is neither user nor assistant is dropped
RECURSIVE GeminiConvert(_)
GeminiConvert(ts) ==
    IF ts = <<>> THEN <<>>
    ELSE LET msg == Head(ts)
             rest == GeminiConvert(Tail(ts))
         IN  IF msg.role = "user" THEN <<GeminiTurn("user", msg.content)>> \o rest
             ELSE IF msg.role = "assistant" THEN <<GeminiTurn("model", msg.content)>> \o rest
             ELSE rest

\* api.py:166-187
GeminiMessages(message, history, json_object) ==
    LET text == IF json_object THEN GEMINI_JSON_PREFIX \o message.text ELSE message.text
        messages == IF message.isstr THEN <<GeminiTurn("user", text)>>
                    ELSE GeminiConvert(message.turns)
    IN  IF history.present THEN GeminiConvert(history.turns) \o messages ELSE messages

(***************************************************************************)
(* State.  One call runs at a time (section 5: synchronous and blocking).  *)
(***************************************************************************)
VARIABLES
    pc,                \* "idle": no call; "loop": in the retry loop; "done": the call ended
    fn,                \* the backend caller that is running
    req,               \* its arguments
    env,               \* the process environment the call reads
    messages,          \* the caller's local `messages`
    cnt,               \* the retry loop's `cnt`: attempts completed so far
    err,               \* the local the final `raise` reads: `error` (get_gpt_output), `e` (others)
    result,            \* the local `result` (`completion` in complete_text_hf)
    outcome,           \* what the call handed to its caller
    dispatch,          \* what get_llm_output_tools did for this call
    loaded_hf_models,  \* the process-wide cache: checkpoint -> (model, tokenizer)
    hf,                \* complete_text_hf's locals: the pair in use and the encoded prompt
    loads,             \* observed: from_pretrained calls that returned, per checkpoint
    threads,           \* complete_text_hf run by concurrent threads: each one's position and locals
    log                \* observed events of the call: backend invocations and sleeps

vars == <<pc, fn, req, env, messages, cnt, err, result, outcome, dispatch,
          loaded_hf_models, hf, loads, threads, log>>

Request(message, model, json_object, history, return_raw, max_retry, sleep_time) ==
    [message |-> message, model |-> model, json_object |-> json_object,
     history |-> history, return_raw |-> return_raw,
     max_retry |-> max_retry, sleep_time |-> sleep_time]

NoRequest == Request(StrMessage(<<>>), <<>>, FALSE, NoHistory, FALSE, 0, 0)

\* GEMINI_API_KEY is set; google.generativeai imported; anthropic.Anthropic() was built
Environment(key, lib, client) == [gemini_key |-> key, genai |-> lib, anthropic |-> client]
GoodEnv == Environment(TRUE, TRUE, TRUE)
Environments == {Environment(k, l, c) : k \in BOOLEAN, l \in BOOLEAN, c \in BOOLEAN}

NoOutcome == [kind |-> "none", val |-> NoValue, exc |-> NoExc]
Returns(v) == [kind |-> "return", val |-> v, exc |-> NoExc]
Raises(e) == [kind |-> "raise", val |-> NoValue, exc |-> e]

NoDispatch == [via |-> FALSE, warned |-> FALSE, callers |-> <<>>]

NoPair == [ckpt |-> <<>>, model |-> 0, tokenizer |-> 0]
NoHf == [pair |-> NoPair, encoded_input |-> <<>>, loaded |-> "none"]
Checkpoints == {AfterSlash(m) : m \in {x \in AllModels : HasSlash(x)}}

\* the threads that call complete_text_hf at the same time, and one that is in no call
Threads == {1, 2}
NoThread == [pc |-> "idle", ckpt |-> <<>>, hf_model |-> 0, tokenizer |-> 0,
             used |-> NoPair, outcome |-> NoOutcome]

NoSent == [api |-> "", turns |-> <<>>, prompt |-> <<>>]
NoLog == [invocations |-> 0, sleeps |-> 0, sleptAfter |-> 0, lastSleep |-> 0, unslept |-> 0,
          backendFails |-> 0, parseFails |-> 0, lastAttempt |-> "none",
          lastExc |-> NoExc, response |-> <<>>, sent |-> NoSent]

Init ==
    /\ pc = "idle"
    /\ fn = "none"
    /\ req = NoRequest
    /\ env = GoodEnv
    /\ messages = <<>>
    /\ cnt = 0
    /\ err = Unbound
    /\ result = NoValue
    /\ outcome = NoOutcome
    /\ dispatch = NoDispatch
    /\ loaded_hf_models = <<>>
    /\ hf = NoHf
    /\ loads = [c \in Checkpoints |-> [model |-> 0, tokenizer |-> 0]]
    /\ threads = [t \in Threads |-> NoThread]
    /\ log = NoLog

(***************************************************************************)
(* Observation of the backend call and of time.sleep.                      *)
(***************************************************************************)
\* an iteration of the loop begins: it is counted in `unslept` when it is not the
\* first and no sleep of sleep_time was made since the attempt before it ended
AttemptStarted(l) ==
    IF cnt > 0 /\ ~(l.sleptAfter = cnt /\ l.lastSleep = req.sleep_time)
    THEN [l EXCEPT !.unslept = @ + 1]
    ELSE l

\* the backend was invoked with `sent` and answered `response` (<<>> if it raised)
Invoked(l, sent, response) ==
    [l EXCEPT !.invocations = @ + 1, !.sent = sent, !.response = response]

\* time.sleep(t), after attempt number `attempt` (1-based)
Slept(l, attempt, t) ==
    [l EXCEPT !.sleeps = @ + 1, !.sleptAfter = attempt, !.lastSleep = t]

\* the attempt failed in the backend call, with e
BackendFailed(l, e) ==
    [l EXCEPT !.backendFails = @ + 1, !.lastAttempt = "backend_error", !.lastExc = e]

\* the attempt got a response that json.loads rejected
ParseFailed(l) ==
    [l EXCEPT !.parseFails = @ + 1, !.lastAttempt = "parse_error", !.lastExc = JSONDecodeError]

Succeeded(l) == [l EXCEPT !.lastAttempt = "ok"]

\* What one backend call does: it raises exc, or answers text.
Raised(e) == [ok |-> FALSE, text |-> <<>>, exc |-> e]
Answered(t) == [ok |-> TRUE, text |-> t, exc |-> NoExc]
BackendOutcomes(errors, responses) ==
    {Raised(e) : e \in errors} \cup {Answered(t) : t \in responses}

\* a return that sleeps first, as the except handlers do
ReturnAfterSleep(l, r, v) ==
    /\ pc' = "done"
    /\ result' = r
    /\ outcome' = Returns(v)
    /\ log' = Succeeded(Slept(l, cnt + 1, req.sleep_time))
    /\ UNCHANGED <<cnt, err>>

\* `return v` out of the retry loop
ReturnFromLoop(l, r, v) ==
    /\ pc' = "done"
    /\ result' = r
    /\ outcome' = Returns(v)
    /\ log' = Succeeded(l)
    /\ UNCHANGED <<cnt, err>>

\* the end of a loop body that did not return: `continue`, or falling off the body
NextIteration(l, r, held) ==
    /\ pc' = "loop"
    /\ cnt' = cnt + 1
    /\ err' = held
    /\ result' = r
    /\ log' = l
    /\ UNCHANGED outcome

\* entering the retry loop
EnterLoop(f, r, v, ms, held) ==
    /\ pc' = "loop"
    /\ fn' = f
    /\ req' = r
    /\ env' = v
    /\ messages' = ms
    /\ cnt' = 0
    /\ err' = held
    /\ result' = NoValue
    /\ outcome' = NoOutcome
    /\ log' = NoLog
    /\ UNCHANGED threads

\* the call raised before it reached the retry loop
RaiseAtSetup(f, r, v, e) ==
    /\ pc' = "done"
    /\ fn' = f
    /\ req' = r
    /\ env' = v
    /\ messages' = <<>>
    /\ cnt' = 0
    /\ err' = Unbound
    /\ result' = NoValue
    /\ outcome' = Raises(e)
    /\ log' = NoLog
    /\ UNCHANGED threads

(***************************************************************************)
(* get_gpt_output (family A).                                              *)
(***************************************************************************)
\* api.py:35-56: `error` is not assigned before the loop
get_gpt_output(r, v) ==
    /\ EnterLoop("get_gpt_output", r, v,
                 GptMessages(r.message, r.history, r.json_object), Unbound)
    /\ hf' = NoHf
    /\ UNCHANGED <<loaded_hf_models, loads>>

\* the handler without its time.sleep
GptExceptNoSleep(l, e) ==
    NextIteration(BackendFailed(l, e), result, e)

\* api.py:67-71: error = e; time.sleep(sleep_time); continue
GptExcept(l, e) ==
    NextIteration(Slept(BackendFailed(l, e), cnt + 1, req.sleep_time), result, e)

\* the parse step with a budget of its own: a parse failure repeats the attempt
\* without counting it
GptParseUncounted(l, text) ==
    IF req.json_object
    THEN LET sub == ExtractBraces(text)
         IN  IF IsJson(sub)
             THEN ReturnFromLoop(l, TextValue(sub), json_loads(sub))
             ELSE /\ pc' = "loop"
                  /\ result' = TextValue(sub)
                  /\ log' = ParseFailed(l)
                  /\ UNCHANGED <<cnt, err, outcome>>
    ELSE ReturnFromLoop(l, TextValue(text), TextValue(text))

\* api.py:73-80: return_raw is never read
GptParse(l, text) ==
    IF req.json_object
    THEN LET sub == ExtractBraces(text)
         IN  IF IsJson(sub)
             THEN ReturnFromLoop(l, TextValue(sub), json_loads(sub))
             ELSE NextIteration(ParseFailed(l), TextValue(sub), err)
    ELSE ReturnFromLoop(l, TextValue(text), TextValue(text))

\* api.py:58-80: one iteration of the loop
GptAttempt(l0, out) ==
    LET sent == [api |-> "chat.completions.create", turns |-> messages, prompt |-> <<>>]
        l == Invoked(l0, sent, out.text)
    IN  IF out.ok THEN GptParse(l, out.text) ELSE GptExcept(l, out.exc)

\* api.py:81: raise error
GptRaise == outcome' = Raises(RaiseName("error", err))

(***************************************************************************)
(* complete_text_claude (family B).                                        *)
(***************************************************************************)
\* api.py:83-113: a failure to build the client is printed, not raised; e = None
complete_text_claude(r, v) ==
    /\ EnterLoop("complete_text_claude", r, v,
                 ClaudeMessages(r.message, r.history, r.json_object), PyNone)
    /\ hf' = NoHf
    /\ UNCHANGED <<loaded_hf_models, loads>>

\* the handler that sleeps between attempts only: not after the last one
ClaudeExceptSleepBetween(l, e) ==
    NextIteration(IF cnt + 1 < req.max_retry
                  THEN Slept(BackendFailed(l, e), cnt + 1, req.sleep_time)
                  ELSE BackendFailed(l, e),
                  result, Unbound)

\* api.py:126-129: `e` is deleted when the except block is left
ClaudeExcept(l, e) ==
    NextIteration(Slept(BackendFailed(l, e), cnt + 1, req.sleep_time), result, Unbound)

\* api.py:124-125 and 131-137
ClaudeParse(l, text) ==
    LET r == IF req.return_raw THEN RawValue(text) ELSE TextValue(text)
    IN  IF req.json_object /\ ~req.return_raw
        THEN IF IsJson(text)
             THEN ReturnFromLoop(l, r, json_loads(text))
             ELSE NextIteration(ParseFailed(l), r, Unbound)
        ELSE ReturnFromLoop(l, r, r)

\* api.py:115-137: without a client the call is a read of an unbound local
ClaudeAttempt(l0, out) ==
    LET sent == [api |-> "beta.tools.messages.create", turns |-> messages, prompt |-> <<>>]
        l == Invoked(l0, sent, out.text)
    IN  IF ~env.anthropic THEN ClaudeExcept(l0, Exc("UnboundLocalError", "anthropic_client"))
        ELSE IF out.ok THEN ClaudeParse(l, out.text)
        ELSE ClaudeExcept(l, out.exc)

\* api.py:138: raise e
ClaudeRaise == outcome' = Raises(RaiseName("e", err))

(***************************************************************************)
(* complete_text_gemini (family C).                                        *)
(***************************************************************************)
\* the setup that prints and goes on, as complete_text_claude's does
GeminiSetupDeferred(r, v) ==
    /\ EnterLoop("complete_text_gemini", r, v,
                 GeminiMessages(r.message, r.history, r.json_object), PyNone)
    /\ hf' = NoHf
    /\ UNCHANGED <<loaded_hf_models, loads>>

\* api.py:140-190: setup raises without the key or the library; e = None
complete_text_gemini(r, v) ==
    /\ IF ~v.gemini_key
       THEN RaiseAtSetup("complete_text_gemini", r, v,
                         Exc("ValueError", "GEMINI_API_KEY environment variable not found."))
       ELSE IF ~v.genai
       THEN RaiseAtSetup("complete_text_gemini", r, v,
                         Exc("ImportError", "google-generativeai package not installed."))
       ELSE EnterLoop("complete_text_gemini", r, v,
                      GeminiMessages(r.message, r.history, r.json_object), PyNone)
    /\ hf' = NoHf
    /\ UNCHANGED <<loaded_hf_models, loads>>

\* api.py:230-233
GeminiExcept(l, e) ==
    NextIteration(Slept(BackendFailed(l, e), cnt + 1, req.sleep_time), result, Unbound)

\* api.py:225-228 and 235-241
GeminiParse(l, text) ==
    LET r == IF req.return_raw THEN RawValue(text) ELSE TextValue(text)
    IN  IF req.json_object /\ ~req.return_raw
        THEN IF IsJson(text)
             THEN ReturnFromLoop(l, r, json_loads(text))
             ELSE NextIteration(ParseFailed(l), r, Unbound)
        ELSE ReturnFromLoop(l, r, r)

\* the chat shape for every conversation, a single turn included
GeminiSentAlwaysChat(ms) ==
    [api |-> "start_chat.send_message", turns |-> SubSeq(ms, 1, Len(ms) - 1),
     prompt |-> ms[Len(ms)].parts[1]]

\* api.py:211-223: generate_content for one turn, else a chat seeded with messages[:-1]
GeminiSent(ms) ==
    IF Len(ms) = 1
    THEN [api |-> "generate_content", turns |-> <<>>, prompt |-> ms[1].parts[1]]
    ELSE [api |-> "start_chat.send_message", turns |-> SubSeq(ms, 1, Len(ms) - 1),
          prompt |-> ms[Len(ms)].parts[1]]

\* api.py:192-241: with no turn at all, messages[-1] raises inside the try
GeminiAttempt(l0, out) ==
    IF messages = <<>>
    THEN GeminiExcept(l0, Exc("IndexError", "list index out of range"))
    ELSE LET l == Invoked(l0, GeminiSent(messages), out.text)
         IN  IF out.ok THEN GeminiParse(l, out.text) ELSE GeminiExcept(l, out.exc)

\* api.py:242: raise e
GeminiRaise == outcome' = Raises(RaiseName("e", err))

(***************************************************************************)
(* complete_text_hf (family D) and the cache loaded_hf_models.             *)
(***************************************************************************)
\* what the two from_pretrained calls do on a cache miss: both load, or one raises
LoadOutcomes == {"ok", "model_error", "tokenizer_error"}
\* a checkpoint's model is loaded at most MaxLoads times (a load whose tokenizer
\* fails caches nothing and can be repeated without end)
MaxLoads == 2

\* api.py:262-263: the m-th model object and the t-th tokenizer object of ckpt
Pair(ckpt, m, t) == [ckpt |-> ckpt, model |-> m, tokenizer |-> t]

\* api.py:255-256
HfPrompt(r) == IF r.json_object THEN HF_JSON_PREFIX \o r.message.text ELSE r.message.text

\* the lookup without its test of the cache: every call loads and stores
HfLookupAlwaysLoad(r, v, model, load) ==
    LET m == loads[model].model + 1
        t == loads[model].tokenizer + 1
    IN  /\ loads[model].model < MaxLoads
        /\ load = "ok"
        /\ EnterLoop("complete_text_hf", r, v, <<>>, Unbound)
        /\ hf' = [pair |-> Pair(model, m, t), encoded_input |-> HfPrompt(r), loaded |-> "both"]
        /\ loaded_hf_models' = (model :> Pair(model, m, t)) @@ loaded_hf_models
        /\ loads' = [loads EXCEPT ![model] = [model |-> m, tokenizer |-> t]]

\* api.py:259-264: the cached pair, or a load that caches the pair when both loaded
HfLookup(r, v, model, load) ==
    LET m == loads[model].model + 1
        t == loads[model].tokenizer + 1
    IN  IF model \in DOMAIN loaded_hf_models
        THEN /\ EnterLoop("complete_text_hf", r, v, <<>>, Unbound)
             /\ hf' = [pair |-> loaded_hf_models[model], encoded_input |-> HfPrompt(r),
                       loaded |-> "cache"]
             /\ UNCHANGED <<loaded_hf_models, loads>>
        ELSE /\ loads[model].model < MaxLoads
             /\ IF load = "ok"
                THEN /\ EnterLoop("complete_text_hf", r, v, <<>>, Unbound)
                     /\ hf' = [pair |-> Pair(model, m, t), encoded_input |-> HfPrompt(r),
                               loaded |-> "both"]
                     /\ loaded_hf_models' = (model :> Pair(model, m, t)) @@ loaded_hf_models
                     /\ loads' = [loads EXCEPT ![model] = [model |-> m, tokenizer |-> t]]
                ELSE /\ RaiseAtSetup("complete_text_hf", r, v, Exc("OSError", load))
                     /\ hf' = [pair |-> NoPair, encoded_input |-> <<>>,
                               loaded |-> IF load = "model_error" THEN "none" ELSE "model"]
                     /\ loads' = IF load = "model_error" THEN loads
                                 ELSE [loads EXCEPT ![model].model = m]
                     /\ UNCHANGED loaded_hf_models

\* api.py:246-269
complete_text_hf(r, v, load) ==
    IF ~HasSlash(r.model)
    THEN /\ RaiseAtSetup("complete_text_hf", r, v, Exc("IndexError", "list index out of range"))
         /\ hf' = NoHf
         /\ UNCHANGED <<loaded_hf_models, loads>>
    ELSE HfLookup(r, v, AfterSlash(r.model), load)

\* api.py:286-288: no `continue`, the body ends; `e` is deleted
HfExcept(l, e) ==
    NextIteration(Slept(BackendFailed(l, e), cnt + 1, req.sleep_time), result, Unbound)

\* api.py:271-288: json_object is not read again, the decoded text is returned as it is
HfAttempt(l0, out) ==
    LET sent == [api |-> "generate", turns |-> <<>>, prompt |-> hf.encoded_input]
        l == Invoked(l0, sent, out.text)
    IN  IF out.ok THEN ReturnFromLoop(l, TextValue(out.text), TextValue(out.text))
        ELSE HfExcept(l, out.exc)

\* api.py:289: raise e
HfRaise == outcome' = Raises(RaiseName("e", err))

(***************************************************************************)
(* get_llm_output_tools: the dispatcher.                                   *)
(***************************************************************************)
\* the request forwarded with the bound and delay it came with
WithRequestPolicy(r, max_retry, sleep_time) == r

\* api.py:315, 318, 321: kwargs.update({'max_retry': ..., 'sleep_time': ...})
WithPolicy(r, max_retry, sleep_time) ==
    [r EXCEPT !.max_retry = max_retry, !.sleep_time = sleep_time]

Dispatched(r, callers) ==
    [via |-> TRUE, warned |-> r.model \notin registered_text_completion_llms,
     callers |-> callers]

\* the branches with the multimodal family tested before the second commercial one
RouteGeminiFirst(model) ==
    IF Contains(Pat_gpt_4, model) THEN "get_gpt_output"
    ELSE IF Contains(Pat_gemma, model) \/ Contains(Pat_gemini, model) THEN "complete_text_gemini"
    ELSE IF Contains(Pat_claude, model) THEN "complete_text_claude"
    ELSE IF Contains(Pat_huggingface, model) THEN "complete_text_hf"
    ELSE "none"

\* the branches with a default caller in place of the final raise
RouteDefaultGpt(model) ==
    IF Contains(Pat_gpt_4, model) THEN "get_gpt_output"
    ELSE IF Contains(Pat_claude, model) THEN "complete_text_claude"
    ELSE IF Contains(Pat_gemma, model) \/ Contains(Pat_gemini, model) THEN "complete_text_gemini"
    ELSE IF Contains(Pat_huggingface, model) THEN "complete_text_hf"
    ELSE "get_gpt_output"

\* the branches behind a registry test: an unregistered identifier matches nothing
RouteRegisteredOnly(model) ==
    IF model \notin registered_text_completion_llms THEN "none"
    ELSE IF Contains(Pat_gpt_4, model) THEN "get_gpt_output"
    ELSE IF Contains(Pat_claude, model) THEN "complete_text_claude"
    ELSE IF Contains(Pat_gemma, model) \/ Contains(Pat_gemini, model) THEN "complete_text_gemini"
    ELSE IF Contains(Pat_huggingface, model) THEN "complete_text_hf"
    ELSE "none"

\* api.py:314-326: the first branch whose pattern the identifier holds
Route(model) ==
    IF Contains(Pat_gpt_4, model) THEN "get_gpt_output"
    ELSE IF Contains(Pat_claude, model) THEN "complete_text_claude"
    ELSE IF Contains(Pat_gemma, model) \/ Contains(Pat_gemini, model) THEN "complete_text_gemini"
    ELSE IF Contains(Pat_huggingface, model) THEN "complete_text_hf"
    ELSE "none"

\* api.py:291-326: complete_text_hf gets no policy and runs with its defaults
get_llm_output_tools(r, v, load) ==
    /\ pc = "idle"
    /\ LET f == Route(r.model)
       IN  CASE f = "get_gpt_output" ->
                  /\ get_gpt_output(WithPolicy(r, MAX_OPENAI_RETRY, OPENAI_SLEEP_TIME), v)
                  /\ dispatch' = Dispatched(r, <<f>>)
             [] f = "complete_text_claude" ->
                  /\ complete_text_claude(WithPolicy(r, MAX_CLAUDE_RETRY, CLAUDE_SLEEP_TIME), v)
                  /\ dispatch' = Dispatched(r, <<f>>)
             [] f = "complete_text_gemini" ->
                  /\ complete_text_gemini(WithPolicy(r, MAX_GEMINI_RETRY, GEMINI_SLEEP_TIME), v)
                  /\ dispatch' = Dispatched(r, <<f>>)
             [] f = "complete_text_hf" ->
                  /\ complete_text_hf(WithPolicy(r, HF_DEFAULT_RETRY, HF_DEFAULT_SLEEP), v, load)
                  /\ dispatch' = Dispatched(r, <<f>>)
             [] OTHER ->
                  /\ RaiseAtSetup("get_llm_output_tools", r, v,
                                  Exc("ValueError", "Model not recognized."))
                  /\ dispatch' = Dispatched(r, <<>>)
                  /\ hf' = NoHf
                  /\ UNCHANGED <<loaded_hf_models, loads>>

(***************************************************************************)
(* The steps of a call.                                                    *)
(***************************************************************************)
\* the part of the environment caller f reads
EnvRead(f, v) ==
    IF f = "complete_text_gemini" THEN Environment(v.gemini_key, v.genai, TRUE)
    ELSE IF f = "complete_text_claude" THEN Environment(TRUE, TRUE, v.anthropic)
    ELSE GoodEnv

\* a backend caller is called directly
Call(f, r, v, load) ==
    /\ pc = "idle"
    /\ dispatch' = NoDispatch
    /\ CASE f = "get_gpt_output" -> get_gpt_output(r, EnvRead(f, v))
         [] f = "complete_text_claude" -> complete_text_claude(r, EnvRead(f, v))
         [] f = "complete_text_gemini" -> complete_text_gemini(r, EnvRead(f, v))
         [] f = "complete_text_hf" -> complete_text_hf(r, EnvRead(f, v), load)

\* the dispatcher is called
Dispatch(r, v, load) == get_llm_output_tools(r, EnvRead(Route(r.model), v), load)

\* `for cnt in range(max_retry)`: one more iteration
Attempt(out) ==
    /\ pc = "loop"
    /\ cnt < req.max_retry
    /\ CASE fn = "get_gpt_output" -> GptAttempt(AttemptStarted(log), out)
         [] fn = "complete_text_claude" -> ClaudeAttempt(AttemptStarted(log), out)
         [] fn = "complete_text_gemini" -> GeminiAttempt(AttemptStarted(log), out)
         [] fn = "complete_text_hf" -> HfAttempt(AttemptStarted(log), out)
    /\ UNCHANGED <<fn, req, env, messages, dispatch, loaded_hf_models, hf, loads, threads>>

\* the loop ran out: the statement after it
Exhausted ==
    /\ pc = "loop"
    /\ cnt >= req.max_retry
    /\ pc' = "done"
    /\ CASE fn = "get_gpt_output" -> GptRaise
         [] fn = "complete_text_claude" -> ClaudeRaise
         [] fn = "complete_text_gemini" -> GeminiRaise
         [] fn = "complete_text_hf" -> HfRaise
    /\ UNCHANGED <<fn, req, env, messages, cnt, err, result, dispatch,
                   loaded_hf_models, hf, loads, threads, log>>

\* the caller has the result; the process is ready for its next call
Return ==
    /\ pc = "done"
    /\ pc' = "idle"
    /\ fn' = "none"
    /\ req' = NoRequest
    /\ env' = GoodEnv
    /\ messages' = <<>>
    /\ cnt' = 0
    /\ err' = Unbound
    /\ result' = NoValue
    /\ outcome' = NoOutcome
    /\ dispatch' = NoDispatch
    /\ hf' = NoHf
    /\ log' = NoLog
    /\ UNCHANGED <<loaded_hf_models, loads, threads>>

(***************************************************************************)
(* Specifications.                                                         *)
(***************************************************************************)
Callers == {"get_gpt_output", "complete_text_claude", "complete_text_gemini",
            "complete_text_hf"}
ChatCallers == Callers \ {"complete_text_hf"}

\* the default `model` of each caller
DefaultModel(f) ==
    CASE f = "get_gpt_output" -> Id_gpt_4_1106_preview
      [] f = "complete_text_claude" -> Id_claude_2_1
      [] f = "complete_text_gemini" -> Id_gemma_3_27b_it
      [] f = "complete_text_hf" -> Id_hf_codellama

MaxRetry == 3
SleepTimes == {0, 7}

\* backend answers: plain text, numbers, objects, objects inside text, stray braces
Responses ==
    { <<>>, <<"x">>, <<"1">>, <<"1", "1">>, <<"{", "}">>, <<"{", "p", "}">>,
      <<"x", "{", "p", "}", "x">>, <<"x", "{", "}">>, <<"{", "p", "}", "x">>,
      <<"{">>, <<"x", "}">>, <<"}", "x", "{">>, <<"{", "}", "{", "}">>,
      <<"{", "x", "}">>, <<"1", "{", "p", "}">> }

\* Spec: the retry loops.  Each caller is called directly with every flag, retry
\* bound and delay; the backend raises or answers anything in Responses.
StartRetry ==
    /\ pc = "idle"
    /\ \E f \in Callers, j \in BOOLEAN, raw \in BOOLEAN, n \in 1..MaxRetry, s \in SleepTimes,
          v \in Environments :
           /\ f = "complete_text_hf" => ~raw
           /\ Call(f, Request(StrMessage(<<"C">>), DefaultModel(f), j, NoHistory, raw, n, s),
                   v, "ok")

Try ==
    /\ pc = "loop"
    /\ \E out \in BackendOutcomes(BackendErrors, Responses) : Attempt(out)

Next == StartRetry \/ Try \/ Exhausted \/ Return

Spec == Init /\ [][Next]_vars

\* SpecDispatch: get_llm_output_tools is called with every identifier of AllModels
\* and runs under the policy it injects; the backend raises, or answers a JSON
\* document: an object or a number.
DispatchResponses == { <<"{", "p", "}">>, <<"1">> }

StartDispatch ==
    /\ pc = "idle"
    /\ \E m \in AllModels, j \in BOOLEAN, raw \in BOOLEAN, v \in Environments :
           Dispatch(Request(StrMessage(<<"C">>), m, j, NoHistory, raw, 0, 0), v, "ok")

TryDispatch ==
    /\ pc = "loop"
    /\ \E out \in BackendOutcomes(BackendErrors, DispatchResponses) : Attempt(out)

NextDispatch == StartDispatch \/ TryDispatch \/ Exhausted \/ Return

SpecDispatch == Init /\ [][NextDispatch]_vars

\* SpecHf: complete_text_hf is called again and again, under identifiers that name
\* the same or different checkpoints or none; a load succeeds or fails.
HfModels == {Id_hf_codellama, Id_local_codellama, Id_hf_gemma, Id_hf_bare}
HfResponses == { <<"x">> }

StartHf ==
    /\ pc = "idle"
    /\ \E m \in HfModels, j \in BOOLEAN, n \in 1..MaxRetry, load \in LoadOutcomes :
           Call("complete_text_hf", Request(StrMessage(<<"C">>), m, j, NoHistory, FALSE, n, 0),
                GoodEnv, load)

TryHf ==
    /\ pc = "loop"
    /\ \E out \in BackendOutcomes(BackendErrors, HfResponses) : Attempt(out)

NextHf == StartHf \/ TryHf \/ Exhausted \/ Return

SpecHf == Init /\ [][NextHf]_vars

\* SpecNorm: the chat callers are called with every message of Messages and every
\* history of Histories, with and without json_object, for a single attempt.
NormResponses == { <<"{", "p", "}">> }

StartNorm ==
    /\ pc = "idle"
    /\ \E f \in ChatCallers, m \in Messages, h \in Histories, j \in BOOLEAN :
           Call(f, Request(m, DefaultModel(f), j, h, FALSE, 1, 0), GoodEnv, "ok")

TryNorm ==
    /\ pc = "loop"
    /\ \E out \in BackendOutcomes(BackendErrors, NormResponses) : Attempt(out)

NextNorm == StartNorm \/ TryNorm \/ Exhausted \/ Return

SpecNorm == Init /\ [][NextNorm]_vars

(***************************************************************************)
(* Properties of the retry loops (checked under Spec).                     *)
(***************************************************************************)
\* the call ended after max_retry attempts that each invoked the backend and
\* each ended in an exception raised by that invocation
AllAttemptsRaised ==
    /\ pc = "done"
    /\ fn \in Callers
    /\ cnt = req.max_retry
    /\ log.invocations = req.max_retry
    /\ log.backendFails = req.max_retry

\* C1: in each of the four callers, a call whose max_retry attempts all fail with an
\* exception raised by the backend call raises the exception of the last attempt.
C1_RaisesLastException ==
    AllAttemptsRaised => outcome = Raises(log.lastExc)

\* the call ended by the final raise, every attempt having failed
AllAttemptsFailed ==
    /\ pc = "done"
    /\ fn \in Callers
    /\ outcome.kind = "raise"
    /\ cnt = req.max_retry
    /\ log.backendFails + log.parseFails = req.max_retry

\* C2 as stated: in a call whose every attempt fails (in whatever way), every attempt
\* after the first began after a sleep of sleep_time that followed the attempt before.
C2_SleepBetweenFailedAttempts ==
    AllAttemptsFailed => log.unslept = 0

\* C2 as amended: when an attempt failed with an exception raised in the backend
\* call, a sleep of sleep_time is made before the next attempt can begin; so in a
\* call whose every attempt fails that way every later attempt began after one.
C2_SleepAfterBackendError ==
    /\ (pc = "loop" /\ log.lastAttempt = "backend_error")
          => (log.sleptAfter = cnt /\ log.lastSleep = req.sleep_time)
    /\ (AllAttemptsFailed /\ log.parseFails = 0)
          => (log.unslept = 0 /\ log.sleeps = req.max_retry)

\* C2 witness: three backend exceptions in a row under a positive delay
C2_Witness ==
    /\ AllAttemptsFailed
    /\ log.parseFails = 0
    /\ req.max_retry >= 3
    /\ req.sleep_time > 0

\* C3: a call that returns did so on the attempt that succeeded: the backend was
\* invoked once per attempt up to that one, no sleep followed it, and sleeps were
\* made only after the attempts that raised before it.
C3_ReturnsOnSuccess ==
    (pc = "done" /\ outcome.kind = "return")
       => /\ log.invocations = cnt + 1
          /\ log.lastAttempt = "ok"
          /\ log.sleptAfter # cnt + 1
          /\ log.sleeps = log.backendFails
          /\ log.backendFails + log.parseFails = cnt

\* C3 witness: success on the second of three attempts, after a backend exception
C3_Witness ==
    /\ pc = "done"
    /\ outcome.kind = "return"
    /\ cnt = 1
    /\ req.max_retry = 3
    /\ log.backendFails = 1
    /\ req.sleep_time > 0

\* the text is one JSON object with text around it that holds no brace
BraceFree(s) == \A i \in 1..Len(s) : s[i] \notin {"{", "}"}
ObjectInText(s) == SubSeq(s, Find(s, "{") + 1, RFind(s, "}") + 1)
IsWrappedObject(s) ==
    /\ Find(s, "{") >= 0
    /\ RFind(s, "}") >= 0
    /\ IsObject(ObjectInText(s))
    /\ BraceFree(SubSeq(s, 1, Find(s, "{")))
    /\ BraceFree(SubSeq(s, RFind(s, "}") + 2, Len(s)))
    /\ Len(ObjectInText(s)) < Len(s)

\* the last attempt got an answer from the backend, under json_object without return_raw
JsonAnswered ==
    /\ fn \in ChatCallers
    /\ req.json_object
    /\ ~req.return_raw
    /\ log.lastAttempt \in {"ok", "parse_error"}

\* C4: in get_gpt_output, complete_text_claude and complete_text_gemini, under
\* json_object without return_raw, an answer that is a JSON object inside other text
\* makes the call return, on that attempt, the object parsed from the first "{"
\* to the last "}".
C4_WrappedObjectReturned ==
    (JsonAnswered /\ IsWrappedObject(log.response))
       => /\ log.lastAttempt = "ok"
          /\ pc = "done"
          /\ outcome = Returns(json_loads(ObjectInText(log.response)))

\* "{" somewhere before "}"
HasBracePair(s) == \E i, j \in 1..Len(s) : i < j /\ s[i] = "{" /\ s[j] = "}"

\* C5: under json_object without return_raw, an answer with no "{" ... "}" pair is a
\* failed attempt, and whatever the call returns is what json.loads built.
C5_NoBracesIsFailure ==
    JsonAnswered
       => /\ ~HasBracePair(log.response) => log.lastAttempt = "parse_error"
          /\ outcome.kind = "return" => outcome.val.form \in {"dict", "int"}

(***************************************************************************)
(* Properties of the dispatcher (checked under SpecDispatch).              *)
(***************************************************************************)
\* the patterns in the order of the claim, each with its family's caller
PriorityOrder ==
    << <<Pat_gpt_4, "get_gpt_output">>, <<Pat_claude, "complete_text_claude">>,
       <<Pat_gemma, "complete_text_gemini">>, <<Pat_gemini, "complete_text_gemini">>,
       <<Pat_huggingface, "complete_text_hf">> >>
Matching(model) == {i \in DOMAIN PriorityOrder : Contains(PriorityOrder[i][1], model)}
FirstMatch(model) ==
    PriorityOrder[CHOOSE i \in Matching(model) : \A k \in Matching(model) : i <= k][2]

\* C6: an identifier that holds one of the patterns is handed to exactly one caller,
\* that of the first pattern in the order gpt-4, claude, gemma/gemini, huggingface.
C6_RoutesByPriority ==
    (dispatch.via /\ Matching(req.model) # {})
       => /\ dispatch.callers = <<FirstMatch(req.model)>>
          /\ fn = FirstMatch(req.model)
          /\ req.model = Id_gemini_1_5_flash => fn = "complete_text_gemini"
          /\ req.model = Id_claude_3_opus => fn = "complete_text_claude"

\* C6 witness: "gemini-claude" holds two patterns and went to complete_text_claude
C6_Witness ==
    /\ dispatch.via
    /\ req.model = Id_gemini_claude
    /\ pc = "loop"
    /\ fn = "complete_text_claude"

\* C7: an identifier that holds no pattern makes get_llm_output_tools raise the
\* "not recognized" ValueError at once: no caller, no backend call, no sleep, no retry.
C7_UnrecognizedIsFatal ==
    (dispatch.via /\ Matching(req.model) = {})
       => /\ pc = "done"
          /\ fn = "get_llm_output_tools"
          /\ outcome = Raises(Exc("ValueError", "Model not recognized."))
          /\ dispatch.callers = <<>>
          /\ cnt = 0
          /\ log.invocations = 0
          /\ log.sleeps = 0

\* C7 witness: "totally-unknown-model" was dispatched and the call has ended
C7_Witness ==
    /\ dispatch.via
    /\ req.model = Id_unknown
    /\ outcome.kind = "raise"

(***************************************************************************)
(* Properties of the local-model cache (checked under SpecHf).             *)
(***************************************************************************)
\* C8: over calls made one after the other, the (model, tokenizer) pair of a
\* checkpoint is built at most once; once cached, the entry is never removed or
\* replaced, nothing is loaded for it again, and a call for it uses the cached pair.
C8_LoadedOnce ==
    /\ [](\A c \in Checkpoints :
            /\ loads[c].tokenizer <= 1
            /\ c \in DOMAIN loaded_hf_models <=> loads[c].tokenizer = 1)
    /\ [][\A c \in DOMAIN loaded_hf_models :
            /\ c \in DOMAIN loaded_hf_models'
            /\ loaded_hf_models'[c] = loaded_hf_models[c]
            /\ loads'[c] = loads[c]
            /\ (pc = "idle" /\ fn' = "complete_text_hf" /\ AfterSlash(req'.model) = c)
                  => (pc' = "loop" /\ hf'.loaded = "cache" /\ hf'.pair = loaded_hf_models[c])
         ]_vars

\* C8 witness: a call under another identifier of a cached checkpoint is in its
\* loop with the pair that an earlier call loaded
C8_Witness ==
    /\ pc = "loop"
    /\ fn = "complete_text_hf"
    /\ req.model = Id_local_codellama
    /\ hf.loaded = "cache"
    /\ hf.pair = loaded_hf_models[AfterSlash(Id_hf_codellama)]

(***************************************************************************)
(* Properties of the message normalisation (checked under SpecNorm).       *)
(***************************************************************************)
TurnContent(t) == IF t.key = "parts" THEN t.parts[1] ELSE t.content
RoleFor(f, role) == IF f = "complete_text_gemini" /\ role = "assistant" THEN "model" ELSE role
TurnKey(f) == IF f = "complete_text_gemini" THEN "parts" ELSE "content"
JsonPrefix(f) ==
    CASE f = "get_gpt_output" -> GPT_JSON_PREFIX
      [] f = "complete_text_claude" -> CLAUDE_JSON_PREFIX
      [] f = "complete_text_gemini" -> GEMINI_JSON_PREFIX

\* turn t is the request's turn src, in the backend's schema
SameTurn(f, t, src) ==
    /\ t.role = RoleFor(f, src.role)
    /\ t.key = TurnKey(f)
    /\ TurnContent(t) = src.content

\* the turns the backend was given, in order: the chat history and then the prompt
SentContents ==
    IF fn = "complete_text_gemini"
    THEN [i \in 1..Len(log.sent.turns) |-> TurnContent(log.sent.turns[i])] \o <<log.sent.prompt>>
    ELSE [i \in 1..Len(log.sent.turns) |-> TurnContent(log.sent.turns[i])]

InCall == pc \in {"loop", "done"} /\ fn \in ChatCallers

\* C9: with a history, the conversation is the turns of history and then those of
\* message, each in its place, with "assistant" renamed "model" for
\* complete_text_gemini; and the backend is given them in that order.
C9_HistoryThenMessage ==
    (InCall /\ req.history.present)
       => LET h == req.history.turns
              m == req.message
              k == Len(h)
              n == IF m.isstr THEN 1 ELSE Len(m.turns)
          IN  /\ Len(messages) = k + n
              /\ \A i \in 1..k : SameTurn(fn, messages[i], h[i])
              /\ m.isstr => /\ messages[k + 1].role = "user"
                            /\ TurnContent(messages[k + 1]) \in {m.text, JsonPrefix(fn) \o m.text}
              /\ ~m.isstr => \A i \in 1..n : SameTurn(fn, messages[k + i], m.turns[i])
              /\ (req.history = HistoryAB /\ m = StrMessage(<<"C">>) /\ ~req.json_object)
                    => [i \in 1..3 |-> <<messages[i].role, TurnContent(messages[i])>>]
                         = << <<"user", <<"A">> >>, <<RoleFor(fn, "assistant"), <<"B">> >>,
                              <<"user", <<"C">> >> >>
              /\ log.invocations > 0
                    => SentContents = [i \in 1..(k + n) |-> TurnContent(messages[i])]

\* C9 witness: complete_text_gemini called the backend with the example's conversation
C9_Witness ==
    /\ pc = "done"
    /\ fn = "complete_text_gemini"
    /\ req.history = HistoryAB
    /\ req.message = StrMessage(<<"C">>)
    /\ log.invocations = 1
    /\ messages[2].role = "model"

\* a call with a string message and history=None
SingleString == InCall /\ req.message.isstr /\ ~req.history.present

\* the one turn the backend was given is the conversation's
OneTurnSent ==
    log.invocations > 0
       => IF fn = "complete_text_gemini"
          THEN log.sent.api = "generate_content" /\ log.sent.prompt = TurnContent(messages[1])
          ELSE log.sent.turns = messages

\* C10 as stated: a string message without history becomes exactly one turn, of role
\* "user", whose content is the string.
C10_SingleUserTurn ==
    SingleString
       => /\ Len(messages) = 1
          /\ messages[1].role = "user"
          /\ TurnContent(messages[1]) = req.message.text

\* the callers put their JSON instruction before the string under json_object;
\* get_gpt_output only if the string does not hold "json" in any case
Instructed ==
    /\ req.json_object
    /\ fn = "get_gpt_output" => ~Contains(<<"json">>, Lower(req.message.text))

\* C10 as amended: exactly one turn, of role "user"; its content is the string, with
\* the caller's JSON instruction before it when json_object asks for one.
C10_SingleUserTurnInstructed ==
    SingleString
       => /\ Len(messages) = 1
          /\ messages[1].role = "user"
          /\ TurnContent(messages[1]) =
                IF Instructed THEN JsonPrefix(fn) \o req.message.text ELSE req.message.text
          /\ OneTurnSent

\* C10 witness: get_gpt_output under json_object sent "C JSON" as it was given
C10_Witness ==
    /\ SingleString
    /\ fn = "get_gpt_output"
    /\ req.json_object
    /\ req.message.text = <<"C", "JSON">>
    /\ log.invocations = 1
    /\ log.sent.turns = <<ChatTurn("user", <<"C", "JSON">>)>>

(***************************************************************************)
(* Properties of calls made through get_llm_output_tools (SpecDispatch).   *)
(***************************************************************************)
\* a call made through the dispatcher has returned a value
DispatchedReturn == dispatch.via /\ pc = "done" /\ outcome.kind = "return"

\* C11: through get_llm_output_tools, in every family, a successful call with
\* return_raw returns the backend's own response object (no text extraction, no JSON
\* parsing, json_object or not); without return_raw it returns the extracted text
\* or the parsed structure.
C11_ReturnRawBypasses ==
    DispatchedReturn
       => /\ req.return_raw => outcome.val = RawValue(log.response)
          /\ ~req.return_raw => outcome.val.form \in {"text", "dict", "int"}

(***************************************************************************)
(* Setup failures (checked under SpecSetup).                               *)
(***************************************************************************)
SetupResponses == { <<"x">> }

\* SpecSetup: each caller is called directly in every environment, and the hf
\* caller under identifiers with and without a slash and every outcome of a load.
StartSetup ==
    /\ pc = "idle"
    /\ \E f \in Callers, n \in 1..MaxRetry, s \in SleepTimes, v \in Environments,
          load \in LoadOutcomes, m \in HfModels :
           /\ f # "complete_text_hf" => load = "ok" /\ m = Id_hf_codellama
           /\ Call(f, Request(StrMessage(<<"C">>),
                              IF f = "complete_text_hf" THEN m ELSE DefaultModel(f),
                              FALSE, NoHistory, FALSE, n, s),
                   v, load)

TrySetup ==
    /\ pc = "loop"
    /\ \E out \in BackendOutcomes(BackendErrors, SetupResponses) : Attempt(out)

NextSetup == StartSetup \/ TrySetup \/ Exhausted \/ Return

SpecSetup == Init /\ [][NextSetup]_vars

\* the call raised before its retry loop was entered
RaisedAtSetup ==
    /\ pc = "done"
    /\ outcome.kind = "raise"
    /\ cnt = 0
    /\ log.lastAttempt = "none"

\* the setup of complete_text_gemini cannot succeed in this environment
GeminiSetupFails == fn = "complete_text_gemini" /\ (~env.gemini_key \/ ~env.genai)

\* C12 (as stated): complete_text_gemini is the only caller whose setup failure is
\* fatal at once: no other caller raises before its retry loop.
C12_OnlyGeminiRaisesAtSetup ==
    RaisedAtSetup => fn = "complete_text_gemini"

\* C12 (amended): without GEMINI_API_KEY or without the library complete_text_gemini
\* raises before its loop, with no backend invocation and no sleep; get_gpt_output
\* and complete_text_claude never raise before the loop, and a missing Anthropic client
\* shows only as max_retry failed attempts; the one other caller that raises before
\* its loop is complete_text_hf, when the identifier or the checkpoint load fails.
C12_SetupFailures ==
    /\ GeminiSetupFails /\ pc # "idle"
         => RaisedAtSetup /\ log.invocations = 0 /\ log.sleeps = 0
    /\ fn \in {"get_gpt_output", "complete_text_claude"} => ~RaisedAtSetup
    /\ fn = "complete_text_claude" /\ ~env.anthropic /\ pc = "done"
         => /\ outcome.kind = "raise"
            /\ log.backendFails = req.max_retry
            /\ log.invocations = 0
    /\ RaisedAtSetup => fn \in {"complete_text_gemini", "complete_text_hf"}

C12_Witness ==
    /\ GeminiSetupFails
    /\ RaisedAtSetup
    /\ outcome.exc.type = "ValueError"

(***************************************************************************)
(* The policy a dispatched call runs under (checked under SpecDispatch).   *)
(***************************************************************************)
\* the bound and delay the dispatcher is said to give each family
DefaultPolicy(f) ==
    CASE f = "get_gpt_output" -> [attempts |-> 5, delay |-> 60]
      [] f = "complete_text_claude" -> [attempts |-> 100, delay |-> 5]
      [] f = "complete_text_gemini" -> [attempts |-> 5, delay |-> 30]
      [] f = "complete_text_hf" -> [attempts |-> 1, delay |-> 0]

\* C13: a call through get_llm_output_tools runs under the default policy of its
\* family: its bound and delay are 5/60 s (A), 100/5 s (B), 5/30 s (C), 1/0 s (D);
\* it makes no more attempts and invocations than the bound, and every sleep it
\* makes is of the family's delay.
C13_DefaultPolicy ==
    dispatch.via /\ fn \in Callers /\ pc \in {"loop", "done"}
       => /\ req.max_retry = DefaultPolicy(fn).attempts
          /\ req.sleep_time = DefaultPolicy(fn).delay
          /\ cnt <= DefaultPolicy(fn).attempts
          /\ log.invocations <= DefaultPolicy(fn).attempts
          /\ log.sleeps > 0 => log.lastSleep = DefaultPolicy(fn).delay

C13_Witness ==
    /\ dispatch.via
    /\ fn = "complete_text_claude"
    /\ pc = "done"
    /\ log.invocations = 100
    /\ log.sleeps = 100
    /\ log.lastSleep = 5

(***************************************************************************)
(* The registry (checked under SpecDispatch).                              *)
(***************************************************************************)
NotRecognized == Raises(Exc("ValueError", "Model not recognized."))

\* C14: the registry only decides the warning.  An identifier is warned about exactly
\* when it is not registered; registered or not, it goes to the caller of the first
\* pattern it holds and runs there under that family's policy, and the dispatcher
\* itself raises only for an identifier that holds no pattern.
C14_RegistryAdvisory ==
    dispatch.via
       => /\ dispatch.warned <=> req.model \notin registered_text_completion_llms
          /\ Matching(req.model) # {}
               => /\ fn = FirstMatch(req.model)
                  /\ dispatch.callers = <<FirstMatch(req.model)>>
                  /\ pc # "idle" => req.max_retry = DefaultPolicy(fn).attempts
          /\ (fn = "get_llm_output_tools" \/ outcome = NotRecognized)
               => Matching(req.model) = {}

\* "gpt-4-turbo-2024-04-09" is not an element of the registry (its literal is joined
\* to the next one), is warned about, and is answered by get_gpt_output
C14_Witness ==
    /\ dispatch.via
    /\ dispatch.warned
    /\ req.model = Id_gpt_4_turbo_2024
    /\ fn = "get_gpt_output"
    /\ pc = "done"
    /\ outcome.kind = "return"

(***************************************************************************)
(* The final raise of get_gpt_output (checked under Spec).                 *)
(***************************************************************************)
\* C15: in get_gpt_output, a call whose max_retry attempts all fail, by an exception
\* of the backend call or by a JSON parse failure in any mix, raises the exception of
\* its last failed attempt, unchanged.
C15_GptRaisesLastFailure ==
    (AllAttemptsFailed /\ fn = "get_gpt_output") => outcome = Raises(log.lastExc)

(***************************************************************************)
(* complete_text_hf called by two threads at once.  Each statement of      *)
(* api.py:258-264 is a step of its own: the cache is read and written      *)
(* with no lock, and another thread may run between any two of them.      *)
(***************************************************************************)
\* the variables of the single-threaded calls
callVars == <<pc, fn, req, env, messages, cnt, err, result, outcome, dispatch, hf, log>>

ThreadStep(t, next) == threads' = [threads EXCEPT ![t] = next]

\* api.py:258: model = model.split("/", 1)[1]
RaceCall ==
    \E t \in Threads, m \in HfModels :
       /\ threads[t].pc = "idle"
       /\ ThreadStep(t, IF HasSlash(m)
                        THEN [NoThread EXCEPT !.pc = "check", !.ckpt = AfterSlash(m)]
                        ELSE [NoThread EXCEPT !.pc = "done",
                                 !.outcome = Raises(Exc("IndexError", "list index out of range"))])
       /\ UNCHANGED <<loaded_hf_models, loads>>
       /\ UNCHANGED callVars

\* api.py:259: if model in loaded_hf_models
RaceCheck ==
    \E t \in Threads :
       /\ threads[t].pc = "check"
       /\ ThreadStep(t, [threads[t] EXCEPT !.pc = IF threads[t].ckpt \in DOMAIN loaded_hf_models
                                                  THEN "read" ELSE "load_model"])
       /\ UNCHANGED <<loaded_hf_models, loads>>
       /\ UNCHANGED callVars

\* api.py:260: hf_model, tokenizer = loaded_hf_models[model]
RaceRead ==
    \E t \in Threads :
       /\ threads[t].pc = "read"
       /\ ThreadStep(t, [threads[t] EXCEPT !.pc = "generate",
                            !.hf_model = loaded_hf_models[threads[t].ckpt].model,
                            !.tokenizer = loaded_hf_models[threads[t].ckpt].tokenizer])
       /\ UNCHANGED <<loaded_hf_models, loads>>
       /\ UNCHANGED callVars

\* a model load that stores the model in the cache at once, without its tokenizer
RaceLoadModelPublished(t, load) ==
    LET c == threads[t].ckpt
        m == loads[c].model + 1
    IN  /\ threads[t].pc = "load_model"
        /\ loads[c].model < MaxLoads
        /\ load = "ok"
        /\ ThreadStep(t, [threads[t] EXCEPT !.pc = "load_tokenizer", !.hf_model = m])
        /\ loads' = [loads EXCEPT ![c].model = m]
        /\ loaded_hf_models' = (c :> Pair(c, m, 0)) @@ loaded_hf_models
        /\ UNCHANGED callVars

\* api.py:262: hf_model = AutoModelForCausalLM.from_pretrained(model).to(device)
RaceLoadModel(t, load) ==
    LET c == threads[t].ckpt
        m == loads[c].model + 1
    IN  /\ threads[t].pc = "load_model"
        /\ loads[c].model < MaxLoads
        /\ IF load = "ok"
           THEN /\ ThreadStep(t, [threads[t] EXCEPT !.pc = "load_tokenizer", !.hf_model = m])
                /\ loads' = [loads EXCEPT ![c].model = m]
           ELSE /\ ThreadStep(t, [threads[t] EXCEPT !.pc = "done",
                                     !.outcome = Raises(Exc("OSError", "model_error"))])
                /\ UNCHANGED loads
        /\ UNCHANGED loaded_hf_models
        /\ UNCHANGED callVars

\* api.py:263: tokenizer = AutoTokenizer.from_pretrained(model)
RaceLoadTokenizer(t, load) ==
    LET c == threads[t].ckpt
        k == loads[c].tokenizer + 1
    IN  /\ threads[t].pc = "load_tokenizer"
        /\ IF load = "ok"
           THEN /\ ThreadStep(t, [threads[t] EXCEPT !.pc = "insert", !.tokenizer = k])
                /\ loads' = [loads EXCEPT ![c].tokenizer = k]
           ELSE /\ ThreadStep(t, [threads[t] EXCEPT !.pc = "done",
                                     !.outcome = Raises(Exc("OSError", "tokenizer_error"))])
                /\ UNCHANGED loads
        /\ UNCHANGED loaded_hf_models
        /\ UNCHANGED callVars

\* api.py:264: loaded_hf_models[model] = (hf_model, tokenizer)
RaceInsert ==
    \E t \in Threads :
       /\ threads[t].pc = "insert"
       /\ ThreadStep(t, [threads[t] EXCEPT !.pc = "generate"])
       /\ loaded_hf_models' =
             (threads[t].ckpt :> Pair(threads[t].ckpt, threads[t].hf_model, threads[t].tokenizer))
                @@ loaded_hf_models
       /\ UNCHANGED loads
       /\ UNCHANGED callVars

\* api.py:266-289 with max_retry = 1: the thread's own tokenizer and hf_model are used
RaceGenerate ==
    \E t \in Threads, out \in BackendOutcomes(BackendErrors, HfResponses) :
       /\ threads[t].pc = "generate"
       /\ ThreadStep(t, [threads[t] EXCEPT !.pc = "done",
                            !.used = Pair(threads[t].ckpt, threads[t].hf_model,
                                          threads[t].tokenizer),
                            !.outcome = IF out.ok THEN Returns(TextValue(out.text))
                                        ELSE Raises(RaiseName("e", Unbound))])
       /\ UNCHANGED <<loaded_hf_models, loads>>
       /\ UNCHANGED callVars

\* the thread's caller has the result
RaceReturn ==
    \E t \in Threads :
       /\ threads[t].pc = "done"
       /\ ThreadStep(t, NoThread)
       /\ UNCHANGED <<loaded_hf_models, loads>>
       /\ UNCHANGED callVars

RaceLoad ==
    \E t \in Threads, load \in {"ok", "error"} :
       RaceLoadModel(t, load) \/ RaceLoadTokenizer(t, load)

NextRace ==
    RaceCall \/ RaceCheck \/ RaceRead \/ RaceLoad \/ RaceInsert \/ RaceGenerate \/ RaceReturn

SpecRace == Init /\ [][NextRace]_vars

\* p is a model and a tokenizer, both loaded, of checkpoint c
CompletePair(p, c) ==
    /\ p.ckpt = c
    /\ p.model \in 1..loads[c].model
    /\ p.tokenizer \in 1..loads[c].tokenizer

\* thread t has called generate
Generated(t) == threads[t].pc = "done" /\ threads[t].used # NoPair

\* C16: however two threads that call complete_text_hf interleave, a thread that
\* generates does so with a loaded model and a loaded tokenizer of its checkpoint,
\* the cache then holds an entry for that checkpoint, and every entry of the cache
\* is such a pair under its own key.  (That the checkpoint can be loaded twice is
\* the state C16_Witness.)
C16_RaceIsBenign ==
    /\ \A t \in Threads :
          Generated(t)
             => /\ CompletePair(threads[t].used, threads[t].ckpt)
                /\ threads[t].ckpt \in DOMAIN loaded_hf_models
    /\ \A c \in DOMAIN loaded_hf_models : CompletePair(loaded_hf_models[c], c)

\* both threads missed the cache for the same checkpoint: it was loaded twice, each
\* thread generated with its own pair, and the cache holds one of the two
C16_Witness ==
    /\ Generated(1) /\ Generated(2)
    /\ threads[1].ckpt = threads[2].ckpt
    /\ threads[1].used.model # threads[2].used.model
    /\ threads[1].used.tokenizer # threads[2].used.tokenizer
    /\ threads[1].outcome.kind = "return" /\ threads[2].outcome.kind = "return"
    /\ loaded_hf_models[threads[1].ckpt] \in {threads[1].used, threads[2].used}
    /\ loads[threads[1].ckpt] = [model |-> 2, tokenizer |-> 2]

(***************************************************************************)
(* The two invocation shapes of complete_text_gemini (SpecShape).          *)
(***************************************************************************)
\* SpecShape: complete_text_gemini is called with every message of Messages and
\* every history of Histories for two attempts; the backend raises or answers.
StartShape ==
    /\ pc = "idle"
    /\ \E m \in Messages, h \in Histories, j \in BOOLEAN :
           Call("complete_text_gemini", Request(m, Id_gemini_1_5_flash, j, h, FALSE, 2, 0),
                GoodEnv, "ok")

TryShape ==
    /\ pc = "loop"
    /\ \E out \in BackendOutcomes(BackendErrors, NormResponses) : Attempt(out)

NextShape == StartShape \/ TryShape \/ Exhausted \/ Return

SpecShape == Init /\ [][NextShape]_vars

\* complete_text_gemini has made at least one attempt
GeminiAttempted ==
    /\ fn = "complete_text_gemini"
    /\ pc \in {"loop", "done"}
    /\ log.lastAttempt # "none"

\* the attempts made so far
AttemptsMade == log.backendFails + log.parseFails + (IF log.lastAttempt = "ok" THEN 1 ELSE 0)

OneShot == [api |-> "generate_content", turns |-> <<>>, prompt |-> TurnContent(messages[1])]
ChatSession ==
    [api |-> "start_chat.send_message",
     turns |-> [i \in 1..(Len(messages) - 1) |-> messages[i]],
     prompt |-> TurnContent(messages[Len(messages)])]

\* C17 (as stated): on every attempt, a conversation of exactly one turn is sent by one
\* generate_content call with that turn's content; any other conversation is sent
\* through a chat seeded with all turns but the last, the last turn's content being
\* the live message.
C17_OneShotOrChat ==
    GeminiAttempted
       => /\ log.invocations = AttemptsMade
          /\ Len(messages) = 1 => log.sent = OneShot
          /\ Len(messages) # 1 => log.sent.api = "start_chat.send_message" /\ log.sent = ChatSession

\* C17 (amended): the same for conversations of one turn and of two or more turns;
\* with a conversation of no turn at all an attempt sends nothing: it fails with
\* IndexError before any message reaches the backend.
C17_OneShotOrChatOrNothing ==
    GeminiAttempted
       => /\ Len(messages) >= 1 => log.invocations = AttemptsMade
          /\ Len(messages) = 1 => log.sent = OneShot
          /\ Len(messages) > 1 => log.sent = ChatSession
          /\ Len(messages) = 0
               => /\ log.invocations = 0
                  /\ log.sent = NoSent
                  /\ log.lastExc.type = "IndexError"

\* the second attempt of a call with history sent the chat again, and was answered
C17_Witness ==
    /\ GeminiAttempted
    /\ pc = "done"
    /\ outcome.kind = "return"
    /\ log.invocations = 2
    /\ Len(messages) = 3
    /\ log.sent.api = "start_chat.send_message"
    /\ Len(log.sent.turns) = 2

(***************************************************************************)
(* The identifiers of the local caller (checked under SpecDispatch).       *)
(***************************************************************************)
StartsWith(s, prefix) ==
    Len(s) >= Len(prefix) /\ SubSeq(s, 1, Len(prefix)) = prefix
WithoutPrefix(s, prefix) == SubSeq(s, Len(prefix) + 1, Len(s))

\* C18: an identifier that get_llm_output_tools hands to complete_text_hf begins with
\* "huggingface/", and the checkpoint that is loaded and cached is the identifier
\* without that prefix.
C18_HfPrefixStripped ==
    (dispatch.via /\ fn = "complete_text_hf")
       => /\ StartsWith(req.model, HfPrefix)
          /\ pc = "loop" => hf.pair.ckpt = WithoutPrefix(req.model, HfPrefix)
          /\ pc = "loop" => WithoutPrefix(req.model, HfPrefix) \in DOMAIN loaded_hf_models

(***************************************************************************)
(* Termination and the attempt budget (checked under SpecLive).            *)
(***************************************************************************)
\* SpecLive: Spec, where a call that is in its loop goes on: the interpreter runs the
\* next iteration, the backend call returns or raises, and the statement after the
\* loop is executed.
SpecLive == Spec /\ WF_vars(Try) /\ WF_vars(Exhausted)

\* the attempts that failed, in the backend call or in json.loads
FailedAttempts == log.backendFails + log.parseFails

AttemptBudget ==
    (fn \in Callers /\ pc \in {"loop", "done"})
       => /\ log.invocations <= AttemptsMade
          /\ AttemptsMade <= req.max_retry
          /\ pc = "loop" => cnt = FailedAttempts
          /\ pc = "done" => outcome.kind \in {"return", "raise"}
          /\ (pc = "done" /\ outcome.kind = "raise" /\ AttemptsMade > 0)
                => FailedAttempts = req.max_retry

\* C19: in every caller, whatever the mix of backend exceptions and parse failures,
\* a call invokes the backend at most max_retry times; every failed attempt, of either
\* kind, takes one unit of the one budget max_retry; and a call that is in its loop
\* ends, by a return or a raise.
C19_BoundedAttempts ==
    /\ []AttemptBudget
    /\ (pc = "loop") ~> (pc = "done")

\* three attempts were all spent, by backend exceptions and parse failures together
C19_Witness ==
    /\ pc = "done"
    /\ outcome.kind = "raise"
    /\ req.max_retry = 3
    /\ log.invocations = 3
    /\ log.backendFails >= 1
    /\ log.parseFails >= 1

(***************************************************************************)
(* The number of sleeps (checked under Spec).                              *)
(***************************************************************************)
\* so far the call slept once for each attempt that raised in its backend call,
\* each time for sleep_time
SleepPerRaise ==
    (fn \in Callers /\ pc \in {"loop", "done"})
       => /\ log.sleeps = log.backendFails
          /\ log.sleeps > 0 => log.lastSleep = req.sleep_time
          /\ (pc = "done" /\ log.backendFails = req.max_retry) => log.sleeps = req.max_retry

\* a step of the loop sleeps exactly when its attempt raised in the backend call, and
\* then once, after that attempt; the step from the loop to the final raise does not
SleepStep ==
    (pc = "loop" /\ fn \in Callers)
       => /\ log'.backendFails = log.backendFails + 1
               => log'.sleeps = log.sleeps + 1 /\ log'.sleptAfter = cnt + 1 /\ cnt' = cnt + 1
          /\ log'.backendFails = log.backendFails => log'.sleeps = log.sleeps
          /\ log'.parseFails = log.parseFails + 1 => log'.sleeps = log.sleeps

\* C20: in every caller sleep(sleep_time) runs once after each attempt whose backend
\* call raised, the last attempt before the final raise included, and not after an
\* attempt that failed in JSON parsing: n raising attempts make n sleeps.
C20_SleepAfterEveryRaise ==
    /\ []SleepPerRaise
    /\ [][SleepStep]_vars

\* two attempts raised and one failed in parsing: two sleeps, the second one after
\* the last attempt, just before the final raise
C20_Witness ==
    /\ pc = "done"
    /\ outcome.kind = "raise"
    /\ req.max_retry = 3
    /\ log.backendFails = 2
    /\ log.parseFails = 1
    /\ log.sleeps = 2
    /\ log.sleptAfter = 3
    /\ req.sleep_time > 0
====
